---- MODULE Spec2Model ----
(***************************************************************************)
(* MaterVis: crystallographic geometry, bonding engine and the renderer    *)
(* that holds the bonds.                                                   *)
(*                                                                         *)
(* Number representation.  The program computes in IEEE doubles; the model *)
(* computes exactly on a grid where the doubles are exact too:             *)
(*   - fractional coordinates are integers counting quarters (2 is 0.5);   *)
(*   - lattice matrix entries, cutoffs, minCut, maxCut and pair overrides  *)
(*     are integers counting 0.001 Angstrom;                               *)
(*   - covalent radii count 0.01 Angstrom, the scale factor counts 0.1,    *)
(*     so that scaleFactor * (r1 + r2) counts 0.001 Angstrom;              *)
(*   - a distance Math.sqrt(s) is carried by its radicand: the value D of  *)
(*     periodicDistance stands for sqrt(D) / 4 in 0.001 Angstrom (the 4    *)
(*     undoes the quarters).  Math.sqrt is strictly increasing, so equal   *)
(*     radicands are equal distances and D1 <= D2 is d1 <= d2.             *)
(* JavaScript values that are not finite numbers (undefined, NaN, objects  *)
(* found through the prototype chain) are tagged records, see JsNum.       *)
(***************************************************************************)
EXTENDS Integers, Sequences, FiniteSets, TLC

VARIABLES
    crystal,    \* calculateBonds: the structure argument
    cfg,        \* calculateBonds: scaleFactor, minCut, maxCut, pairOverrides
    i,          \* calculateBonds: outer loop index (0-based)
    j,          \* calculateBonds: inner loop index (0-based)
    bonds,      \* calculateBonds: the local array `bonds`
    pc,         \* calculateBonds: position in the function
    argFrac1,   \* periodicDistance: first point
    argFrac2,   \* periodicDistance: second point
    argShift,   \* an integer lattice translation k (whole cells)
    argLattice, \* periodicDistance: the lattice matrix
    dist,       \* results of the periodicDistance calls made so far
    lpIn,       \* latticeParamsToMatrix: a, b, c, alpha, beta, gamma
    lpOut,      \* latticeParamsToMatrix: how the call ended, and its value
    cifIn,      \* CIFParser.parse: the tokens of the CIF text
    cifOut,     \* CIFParser.parse: how the call ended, and its value
    store,      \* the zustand store's state (store.ts)
    ren,        \* the CrystalRenderer's fields and the scene's renderer objects
    disposed,   \* Viewer.dispose() has been called
    call        \* a call of one exported function: its arguments and results

bondVars == <<crystal, cfg, i, j, bonds, pc>>
distVars == <<argFrac1, argFrac2, argShift, argLattice, dist>>
latVars == <<lpIn, lpOut, cifIn, cifOut>>
renVars == <<store, ren, disposed>>
fnVars == <<call>>
vars == <<bondVars, distVars, latVars, renVars, fnVars>>

(***************************************************************************)
(* JavaScript values                                                       *)
(***************************************************************************)
JsNum(n) == [k |-> "num", v |-> n]
JsNaN == [k |-> "nan", v |-> 0]
JsUndefined == [k |-> "undef", v |-> 0]
JsObject == [k |-> "obj", v |-> 0]      \* a function or object: truthy, not a number
JsString == [k |-> "str", v |-> 0]      \* a string that is not numeric

\* ToBoolean: undefined, NaN and 0 are falsy; objects and other numbers truthy.
Truthy(x) == \/ x.k = "obj"
             \/ x.k = "str"
             \/ (x.k = "num" /\ x.v # 0)

\* a || b
JsOr(a, b) == IF Truthy(a) THEN a ELSE b

\* a + b: numeric addition, or string concatenation once an operand is an object
JsPlus(a, b) ==
    IF a.k \in {"obj", "str"} \/ b.k \in {"obj", "str"} THEN JsString
    ELSE IF a.k = "num" /\ b.k = "num" THEN JsNum(a.v + b.v)
    ELSE JsNaN

\* a plausible slip: the sign of the product is lost
JsTimesNegated(a, b) ==
    IF a.k = "num" /\ b.k = "num" THEN JsNum(-(a.v * b.v)) ELSE JsNaN

\* a * b: ToNumber of a non-numeric string, of undefined or of NaN is NaN
JsTimes(a, b) ==
    IF a.k = "num" /\ b.k = "num" THEN JsNum(a.v * b.v) ELSE JsNaN

\* Math.min / Math.max: NaN as soon as one argument is NaN
MathMin(a, b) ==
    IF a.k # "num" \/ b.k # "num" THEN JsNaN
    ELSE IF a.v <= b.v THEN a ELSE b

MathMax(a, b) ==
    IF a.k # "num" \/ b.k # "num" THEN JsNaN
    ELSE IF a.v >= b.v THEN a ELSE b

(***************************************************************************)
(* Periodic geometry (utils/lattice.ts).  Vectors are tuples <<x, y, z>>   *)
(* of quarters, matrices are tuples of three rows.                         *)
(***************************************************************************)
\* A double on or next to the grid: q quarters plus e times a tiny amount
\* (1e-17), e in {-1, 0, 1}.  Next to the grid only 0 - tiny and 0 + tiny
\* are doubles; around any other grid point the tiny amount is rounded away.
Near(q, e) == [q |-> q, e |-> e]
OnGrid(q) == Near(q, 0)

\* Math.floor(x), in whole units
MathFloor(x) == IF x.e < 0 /\ x.q % 4 = 0 THEN (x.q \div 4) - 1 ELSE x.q \div 4

\* x - k for an integer k, rounded to the nearest double
MinusWhole(x, k) == IF x.q - 4 * k = 0 THEN Near(0, x.e) ELSE OnGrid(x.q - 4 * k)

\* a plausible slip: Math.trunc, truncation towards zero
MathTrunc(f) == IF f >= 0 THEN f \div 4 ELSE -((-f) \div 4)

\* Math.round(f) of f quarters, in whole units: JavaScript rounds a tie
\* towards +Infinity (Math.round(0.5) = 1, Math.round(-0.5) = -0).
MathRound(f) == (f + 2) \div 4

\* frac.map(f => f - Math.floor(f))
wrapFractional(frac) == [n \in 1..3 |-> MinusWhole(frac[n], MathFloor(frac[n]))]

\* a plausible slip: the difference is wrapped into [0, 1)
minimumImageByFloor(frac) == [n \in 1..3 |-> frac[n] % 4]

\* frac.map(f => f - Math.round(f))
minimumImage(frac) == [n \in 1..3 |-> frac[n] - 4 * MathRound(frac[n])]

\* row vector times matrix, cart[k] = sum_i v[i] * M[i][k]
RowTimesMatrix(v, M) ==
    [n \in 1..3 |-> v[1] * M[1][n] + v[2] * M[2][n] + v[3] * M[3][n]]

\* the radicand dr.dr handed to Math.sqrt
periodicDistance(frac1, frac2, latticeMatrix) ==
    LET df == <<frac2[1] - frac1[1], frac2[2] - frac1[2], frac2[3] - frac1[3]>>
        dfWrapped == minimumImage(df)
        dr == RowTimesMatrix(dfWrapped, latticeMatrix)
    IN  dr[1] * dr[1] + dr[2] * dr[2] + dr[3] * dr[3]

(***************************************************************************)
(* Element reference table and bonding engine (utils/bonds.ts)             *)
(***************************************************************************)
\* COVALENT_RADII, in 0.01 A
COVALENT_RADII ==
    [H |-> 32, He |-> 46, Li |-> 133, Be |-> 102, B |-> 85, C |-> 75, N |-> 71,
     O |-> 66, F |-> 57, Ne |-> 58, Na |-> 155, Mg |-> 139, Al |-> 126, Si |-> 116,
     P |-> 111, S |-> 103, Cl |-> 99, Ar |-> 107, K |-> 196, Ca |-> 171, Sc |-> 148,
     Ti |-> 136, V |-> 134, Cr |-> 122, Mn |-> 119, Fe |-> 116, Co |-> 111,
     Ni |-> 110, Cu |-> 112, Zn |-> 118, Ga |-> 124, Ge |-> 121, As |-> 121,
     Se |-> 116, Br |-> 114, Kr |-> 117]

\* property names every object literal inherits from Object.prototype
ObjectPrototypeKeys ==
    {"constructor", "toString", "toLocaleString", "valueOf", "hasOwnProperty",
     "isPrototypeOf", "propertyIsEnumerable", "__proto__", "__defineGetter__",
     "__defineSetter__", "__lookupGetter__", "__lookupSetter__"}

\* COVALENT_RADII[element]: an own entry, else what the prototype chain
\* holds (a function), else undefined
RadiusLookup(element) ==
    IF element \in DOMAIN COVALENT_RADII THEN JsNum(COVALENT_RADII[element])
    ELSE IF element \in ObjectPrototypeKeys THEN JsObject
    ELSE JsUndefined

\* a plausible slip: the table is not consulted
RadiusDefaultOnly(element) == JsNum(100)

\* COVALENT_RADII[element] || 1.0
RadiusOrDefault(element) == JsOr(RadiusLookup(element), JsNum(100))

\* pairOverrides is undefined (NoOverrides) or an object; a key `${e1}-${e2}`
\* is the pair <<e1, e2>> (element symbols hold no '-')
NoOverrides == [present |-> FALSE, map |-> <<>>]
Overrides(m) == [present |-> TRUE, map |-> m]

\* pairOverrides[key]
OverrideLookup(pairOverrides, key) ==
    IF key \in DOMAIN pairOverrides.map THEN JsNum(pairOverrides.map[key])
    ELSE JsUndefined

\* pairOverrides && (pairOverrides[pairKey1] || pairOverrides[pairKey2])
OverrideApplies(pairOverrides, pairKey1, pairKey2) ==
    /\ pairOverrides.present
    /\ Truthy(JsOr(OverrideLookup(pairOverrides, pairKey1),
                   OverrideLookup(pairOverrides, pairKey2)))

\* a plausible slip: the lower limit is never applied
ClampCutoffNoMin(minCut, maxCut, cutoff) == MathMin(JsNum(maxCut), cutoff)

\* Math.max(minCut, Math.min(maxCut, cutoff))
ClampCutoff(minCut, maxCut, cutoff) ==
    MathMax(JsNum(minCut), MathMin(JsNum(maxCut), cutoff))

\* the cutoff of one pair, lines 86-103
PairCutoff(element1, element2, c) ==
    LET pairKey1 == <<element1, element2>>
        pairKey2 == <<element2, element1>>
    IN  IF OverrideApplies(c.pairOverrides, pairKey1, pairKey2)
        THEN JsOr(OverrideLookup(c.pairOverrides, pairKey1),
                  JsOr(OverrideLookup(c.pairOverrides, pairKey2), JsNum(c.minCut)))
        ELSE LET r1 == RadiusOrDefault(element1)
                 r2 == RadiusOrDefault(element2)
             IN  ClampCutoff(c.minCut, c.maxCut,
                             JsTimes(JsNum(c.scaleFactor), JsPlus(r1, r2)))

\* a plausible slip: distance < cutoff
WithinCutoffStrict(distance, cutoff) ==
    /\ cutoff.k = "num"
    /\ cutoff.v > 0
    /\ distance < 16 * cutoff.v * cutoff.v

\* distance <= cutoff, for the radicand D of the distance: false for a NaN
\* cutoff, and sqrt(D) / 4 <= cutoff is cutoff >= 0 and D <= 16 * cutoff^2
WithinCutoff(distance, cutoff) ==
    /\ cutoff.k = "num"
    /\ cutoff.v >= 0
    /\ distance <= 16 * cutoff.v * cutoff.v

\* a plausible slip: the bond is put in front (unshift)
PushBondInFront(bs, a1, a2, distance, cutoff) ==
    <<[atom1 |-> a1, atom2 |-> a2, distance |-> distance, cutoff |-> cutoff]>> \o bs

\* bonds.push({atom1: i, atom2: j, distance, cutoff})
PushBond(bs, a1, a2, distance, cutoff) ==
    Append(bs, [atom1 |-> a1, atom2 |-> a2, distance |-> distance, cutoff |-> cutoff])

\* a plausible slip: the inner loop starts at i
InnerStartAtSelf(n) == n

\* the first j of the inner loop, `let j = i + 1`
InnerStart(n) == n + 1

\* a plausible slip: the difference is wrapped only along the axes whose pbc
\* flag is set
VisitPairHonouringPbc(bs, cr, c, a1, a2) ==
    LET site1 == cr.sites[a1 + 1]
        site2 == cr.sites[a2 + 1]
        cutoff == PairCutoff(site1.element, site2.element, c)
        df == [n \in 1..3 |-> site2.frac[n] - site1.frac[n]]
        dfWrapped == [n \in 1..3 |-> IF cr.pbc[n] THEN minimumImage(df)[n] ELSE df[n]]
        dr == RowTimesMatrix(dfWrapped, cr.lattice.matrix)
        distance == dr[1] * dr[1] + dr[2] * dr[2] + dr[3] * dr[3]
    IN  IF WithinCutoff(distance, cutoff)
        THEN PushBond(bs, a1, a2, distance, cutoff)
        ELSE bs

\* the body of the inner loop for the pair (a1, a2), lines 83-116
VisitPair(bs, cr, c, a1, a2) ==
    LET site1 == cr.sites[a1 + 1]
        site2 == cr.sites[a2 + 1]
        cutoff == PairCutoff(site1.element, site2.element, c)
        distance == periodicDistance(site1.frac, site2.frac, cr.lattice.matrix)
    IN  IF WithinCutoff(distance, cutoff)
        THEN PushBond(bs, a1, a2, distance, cutoff)
        ELSE bs

\* calculateBonds as a function: the two loops run to completion
RECURSIVE BondsFrom(_, _, _, _, _)
BondsFrom(bs, cr, c, a1, a2) ==
    IF a1 >= Len(cr.sites) THEN bs
    ELSE IF a2 >= Len(cr.sites) THEN BondsFrom(bs, cr, c, a1 + 1, InnerStart(a1 + 1))
    ELSE BondsFrom(VisitPair(bs, cr, c, a1, a2), cr, c, a1, a2 + 1)

calculateBonds(cr, c) == BondsFrom(<<>>, cr, c, 0, InnerStart(0))

(***************************************************************************)
(* calculateBonds, statement by statement.  Inputs: structures of up to    *)
(* MaxSites sites drawn from SiteKinds under the lattices of Lattices, and *)
(* the bonding configurations of Configs.                                  *)
(***************************************************************************)
MaxSites == 3

\* 5 A cubic cell (the end-to-end scenario) and a small sheared cell
Cubic5 == <<<<5000, 0, 0>>, <<0, 5000, 0>>, <<0, 0, 5000>>>>
Skew2 == <<<<2000, 0, 0>>, <<1000, 2000, 0>>, <<0, 0, 2000>>>>

Lattices == {[matrix |-> Cubic5, pbc |-> <<TRUE, TRUE, TRUE>>],
             [matrix |-> Skew2, pbc |-> <<TRUE, TRUE, TRUE>>],
             [matrix |-> Cubic5, pbc |-> <<FALSE, TRUE, FALSE>>]}

\* sites: table elements, an element missing from the table, an element
\* named like an inherited property; coordinates inside and outside [0, 1)
SiteKinds == {[element |-> "Na", frac |-> <<0, 0, 0>>],
              [element |-> "Cl", frac |-> <<2, 2, 2>>],
              [element |-> "H", frac |-> <<1, 0, 0>>],
              [element |-> "Zzz", frac |-> <<2, 1, 0>>],
              [element |-> "constructor", frac |-> <<5, 0, -1>>]}

SiteSeqs == UNION {[1..n -> SiteKinds] : n \in 0..MaxSites}

Structures == {[lattice |-> [matrix |-> l.matrix], pbc |-> l.pbc, sites |-> ss] :
                   l \in Lattices, ss \in SiteSeqs}

Config(f, lo, hi, ov) ==
    [scaleFactor |-> f, minCut |-> lo, maxCut |-> hi, pairOverrides |-> ov]

\* the store's default 1.1 / 0.7 / 3.2, a zero and a negative scale factor,
\* a minCut on a pair distance, maxCut < minCut, and pair overrides outside
\* [minCut, maxCut] and equal to 0
Configs ==
    {Config(f, mm[1], mm[2], NoOverrides) :
        f \in {-10, 0, 11, 15},
        mm \in {<<700, 3200>>, <<1250, 3200>>, <<3200, 700>>, <<0, 3200>>, <<-500, 3200>>}}
    \cup
    {Config(f, 700, 3200, Overrides(m)) :
        f \in {0, 11},
        m \in {<<"Na", "Cl">> :> 4500, <<"Cl", "Na">> :> 500, <<"Na", "Cl">> :> 0,
               <<"H", "Na">> :> 1250}}

NoCrystal == [lattice |-> [matrix |-> Cubic5], pbc |-> <<TRUE, TRUE, TRUE>>, sites |-> <<>>]

\* the variables of the other specifications, at rest
Pending == [done |-> FALSE, v |-> 0]
Result(v) == [done |-> TRUE, v |-> v]
BondsIdle ==
    /\ crystal = NoCrystal
    /\ cfg = Config(11, 700, 3200, NoOverrides)
    /\ i = 0
    /\ j = 0
    /\ bonds = <<>>
    /\ pc = "idle"
\* the store as created (store.ts lines 36-72) and a renderer just constructed
NullObject == [kind |-> "null"]
DefaultBonding == [mode |-> "covalent", f |-> 11, min |-> 700, max |-> 3200,
                   pairOverrides |-> NoOverrides]
InitialStore == [crystal |-> "null", bonding |-> DefaultBonding, showBonds |-> TRUE,
                 showPolyhedra |-> FALSE, showAxes |-> TRUE]
InitialRenderer == [crystal |-> "null", atoms |-> NullObject, bonds |-> NullObject,
                    polyhedra |-> <<>>, orphans |-> {}]
RenderIdle ==
    /\ store = InitialStore
    /\ ren = InitialRenderer
    /\ disposed = FALSE
\* no exported function is being called
NoCall == [fn |-> "none"]
CallIdle == call = NoCall
LatticeIdle ==
    /\ lpIn = <<1, 1, 1, 90, 90, 90>>
    /\ lpOut = [status |-> "pending"]
    /\ cifIn = [cell |-> <<>>, atoms |-> <<>>]
    /\ cifOut = [status |-> "pending"]
DistIdle ==
    /\ argFrac1 = <<0, 0, 0>>
    /\ argFrac2 = <<0, 0, 0>>
    /\ argShift = <<0, 0, 0>>
    /\ argLattice = Cubic5
    /\ dist = [forward |-> Pending, backward |-> Pending, shifted |-> Pending]

Init ==
    /\ CallIdle
    /\ DistIdle
    /\ LatticeIdle
    /\ RenderIdle
    /\ crystal \in Structures
    /\ cfg \in Configs
    /\ i = 0
    /\ j = 0
    /\ bonds = <<>>
    /\ pc = "outer"

\* for (let i = 0; i < crystal.sites.length; ...): enter the body
OuterEnter ==
    /\ pc = "outer"
    /\ i < Len(crystal.sites)
    /\ j' = InnerStart(i)
    /\ pc' = "inner"
    /\ UNCHANGED <<crystal, cfg, i, bonds, distVars, latVars, renVars, fnVars>>

\* for (let j = i + 1; j < crystal.sites.length; j++): one pair
InnerVisit ==
    /\ pc = "inner"
    /\ j < Len(crystal.sites)
    /\ bonds' = VisitPair(bonds, crystal, cfg, i, j)
    /\ j' = j + 1
    /\ UNCHANGED <<crystal, cfg, i, pc, distVars, latVars, renVars, fnVars>>

\* a plausible slip: the outer index is not advanced
InnerExitKeepsIndex ==
    /\ pc = "inner"
    /\ j >= Len(crystal.sites)
    /\ pc' = "outer"
    /\ UNCHANGED <<crystal, cfg, i, j, bonds, distVars, latVars, renVars, fnVars>>

\* the inner loop ends: i++
InnerExit ==
    /\ pc = "inner"
    /\ j >= Len(crystal.sites)
    /\ i' = i + 1
    /\ pc' = "outer"
    /\ UNCHANGED <<crystal, cfg, j, bonds, distVars, latVars, renVars, fnVars>>

\* the outer loop ends: return bonds
Return ==
    /\ pc = "outer"
    /\ i >= Len(crystal.sites)
    /\ pc' = "done"
    /\ UNCHANGED <<crystal, cfg, i, j, bonds, distVars, latVars, renVars, fnVars>>

Next == OuterEnter \/ InnerVisit \/ InnerExit \/ Return

Spec == Init /\ [][Next]_vars

(***************************************************************************)
(* Claims about calculateBonds                                             *)
(***************************************************************************)
NumSites == Len(crystal.sites)
SitePairs == {p \in (0..(NumSites - 1)) \X (0..(NumSites - 1)) : p[1] < p[2]}
HasBond(a, b) == \E n \in 1..Len(bonds) : bonds[n].atom1 = a /\ bonds[n].atom2 = b
PairDistance(a, b) ==
    periodicDistance(crystal.sites[a + 1].frac, crystal.sites[b + 1].frac,
                     crystal.lattice.matrix)
PairElements(a, b) == <<crystal.sites[a + 1].element, crystal.sites[b + 1].element>>
CutoffOfPair(a, b) == PairCutoff(PairElements(a, b)[1], PairElements(a, b)[2], cfg)
\* d <= c for a distance radicand D and a cutoff c in 0.001 A
DistanceAtMost(D, c) == c >= 0 /\ D <= 16 * c * c
IntMax(x, y) == IF x >= y THEN x ELSE y
IntMin(x, y) == IF x <= y THEN x ELSE y

\* C1: when calculateBonds returns, a pair (a, b) with a < b has a bond if and
\* only if its periodic distance is <= the cutoff determined for the pair
\* (boundary included), and every bond records that distance and that cutoff.
C1_BondIffWithinCutoff ==
    pc = "done" =>
        /\ \A p \in SitePairs :
              HasBond(p[1], p[2]) <=>
                  /\ CutoffOfPair(p[1], p[2]).k = "num"
                  /\ DistanceAtMost(PairDistance(p[1], p[2]), CutoffOfPair(p[1], p[2]).v)
        /\ \A n \in 1..Len(bonds) :
              /\ <<bonds[n].atom1, bonds[n].atom2>> \in SitePairs
              /\ bonds[n].distance = PairDistance(bonds[n].atom1, bonds[n].atom2)
              /\ bonds[n].cutoff = CutoffOfPair(bonds[n].atom1, bonds[n].atom2)

\* a returned result holding a bond whose distance is exactly its cutoff,
\* next to a pair that is not bonded
C1_Witness ==
    /\ pc = "done"
    /\ \E n \in 1..Len(bonds) :
          /\ bonds[n].distance > 0
          /\ bonds[n].distance = 16 * bonds[n].cutoff.v * bonds[n].cutoff.v
    /\ \E p \in SitePairs : ~HasBond(p[1], p[2])

\* C2: every bond has 0 <= atom1 < atom2 < number of sites, no unordered pair
\* of indices appears twice, and fewer than 2 sites yield no bond.
C2_BondIndicesOrderedUnique ==
    /\ \A n \in 1..Len(bonds) :
          /\ 0 <= bonds[n].atom1
          /\ bonds[n].atom1 < bonds[n].atom2
          /\ bonds[n].atom2 < NumSites
    /\ \A m, n \in 1..Len(bonds) :
          m # n => {bonds[m].atom1, bonds[m].atom2} # {bonds[n].atom1, bonds[n].atom2}
    /\ (pc = "done" /\ NumSites < 2) => bonds = <<>>

\* every pair of a three-site structure bonded
C2_Witness == pc = "done" /\ NumSites = 3 /\ Len(bonds) = 3

\* C3: the bond sequence is strictly increasing in lexicographic
\* (atom1, atom2) order.
C3_BondsLexicographic ==
    \A n \in 1..(Len(bonds) - 1) :
        \/ bonds[n].atom1 < bonds[n + 1].atom1
        \/ (bonds[n].atom1 = bonds[n + 1].atom1 /\ bonds[n].atom2 < bonds[n + 1].atom2)

\* a returned sequence whose consecutive bonds differ in atom2 and in atom1
C3_Witness ==
    /\ pc = "done"
    /\ Len(bonds) >= 3
    /\ bonds[1].atom1 = bonds[2].atom1
    /\ bonds[2].atom1 < bonds[3].atom1

\* C4 (as claimed): a pair whose key 'e1-e2' or 'e2-e1' is in pairOverrides
\* gets that entry's value as its cutoff, whatever the value (0 included),
\* with no radius sum and no clamp.
OverrideEntry(a, b) ==
    LET m == cfg.pairOverrides.map
        k1 == PairElements(a, b)
        k2 == <<PairElements(a, b)[2], PairElements(a, b)[1]>>
    IN  IF k1 \in DOMAIN m THEN m[k1] ELSE m[k2]
HasOverrideEntry(a, b) ==
    /\ cfg.pairOverrides.present
    /\ \/ PairElements(a, b) \in DOMAIN cfg.pairOverrides.map
       \/ <<PairElements(a, b)[2], PairElements(a, b)[1]>> \in DOMAIN cfg.pairOverrides.map

C4_OverrideUsedDirectly ==
    pc = "done" =>
        \A p \in SitePairs :
            HasOverrideEntry(p[1], p[2]) =>
                /\ HasBond(p[1], p[2]) <=>
                       DistanceAtMost(PairDistance(p[1], p[2]), OverrideEntry(p[1], p[2]))
                /\ \A n \in 1..Len(bonds) :
                       (bonds[n].atom1 = p[1] /\ bonds[n].atom2 = p[2]) =>
                           bonds[n].cutoff = JsNum(OverrideEntry(p[1], p[2]))

\* C5 (as claimed): a pair with no matching override gets the cutoff
\* scaleFactor * (covalentRadius(e1) + covalentRadius(e2)) clamped into
\* [minCut, maxCut], covalentRadius being the table value or 1.0 for any
\* element that is not in the table.
ClaimedRadius(element) ==
    IF element \in DOMAIN COVALENT_RADII THEN COVALENT_RADII[element] ELSE 100
ClaimedCutoff(a, b) ==
    IntMax(cfg.minCut,
           IntMin(cfg.maxCut,
                  cfg.scaleFactor * (ClaimedRadius(PairElements(a, b)[1])
                                     + ClaimedRadius(PairElements(a, b)[2]))))

C5_RadiusSumClamped ==
    pc = "done" =>
        \A p \in SitePairs :
            ~HasOverrideEntry(p[1], p[2]) =>
                /\ HasBond(p[1], p[2]) <=>
                       DistanceAtMost(PairDistance(p[1], p[2]), ClaimedCutoff(p[1], p[2]))
                /\ \A n \in 1..Len(bonds) :
                       (bonds[n].atom1 = p[1] /\ bonds[n].atom2 = p[2]) =>
                           bonds[n].cutoff = JsNum(ClaimedCutoff(p[1], p[2]))
                /\ cfg.minCut <= cfg.maxCut =>
                       (cfg.minCut <= ClaimedCutoff(p[1], p[2])
                        /\ ClaimedCutoff(p[1], p[2]) <= cfg.maxCut)

\* C10 (as claimed): with scaleFactor <= 0 and no pair overrides the result
\* is empty, for every structure and every minCut / maxCut.
C10_NonPositiveScaleNoBonds ==
    (pc = "done" /\ cfg.scaleFactor <= 0 /\ ~cfg.pairOverrides.present) => bonds = <<>>

\* C10 (amended): with scaleFactor <= 0 and no pair overrides, every bond
\* returned has a distance of at most max(minCut, 0), with cutoff minCut when
\* minCut >= 0; the result is empty whenever no two sites lie within
\* max(minCut, 0) of each other.
C10_NonPositiveScaleWithinMinCut ==
    (pc = "done" /\ cfg.scaleFactor <= 0 /\ ~cfg.pairOverrides.present) =>
        /\ \A n \in 1..Len(bonds) :
              /\ DistanceAtMost(bonds[n].distance, IntMax(cfg.minCut, 0))
              /\ cfg.minCut >= 0 => bonds[n].cutoff = JsNum(cfg.minCut)
        /\ (\A p \in SitePairs :
               ~DistanceAtMost(PairDistance(p[1], p[2]), IntMax(cfg.minCut, 0)))
           => bonds = <<>>

\* a negative scale factor, default limits, and a bond all the same
C10_Witness ==
    /\ pc = "done"
    /\ cfg.scaleFactor < 0
    /\ ~cfg.pairOverrides.present
    /\ cfg.minCut = 700
    /\ Len(bonds) >= 1
    /\ bonds[1].distance > 0

\* the scale factors of Configs
ScaleFactors == {c.scaleFactor : c \in Configs}

\* C11: with the structure, minCut, maxCut and pairOverrides fixed and
\* s1 <= s2, every pair bonded under scale factor s1 is bonded under s2, and
\* the result under s2 has at least as many bonds.
C11_BondingMonotone ==
    pc = "done" =>
        \A s2 \in ScaleFactors :
            cfg.scaleFactor <= s2 =>
                LET more == calculateBonds(crystal, [cfg EXCEPT !.scaleFactor = s2]) IN
                /\ Len(more) >= Len(bonds)
                /\ \A n \in 1..Len(bonds) :
                      \E m \in 1..Len(more) :
                          /\ more[m].atom1 = bonds[n].atom1
                          /\ more[m].atom2 = bonds[n].atom2

\* a result under 1.1 that is not empty and gains a bond under 1.5
C11_Witness ==
    /\ pc = "done"
    /\ cfg.scaleFactor = 11
    /\ Len(bonds) >= 1
    /\ Len(calculateBonds(crystal, [cfg EXCEPT !.scaleFactor = 15])) > Len(bonds)

\* an upper bound on the statements calculateBonds has still to execute
LoopMeasure ==
    LET n == NumSites
        W == n + 2
    IN  CASE pc = "done" -> 0
          [] pc = "outer" -> (n - i) * W + 1
          [] OTHER -> (n - i - 1) * W + 2 + (n - j)

\* C12: calculateBonds returns normally for every structure and
\* configuration (maxCut < minCut and negative scale factors included): the
\* loop body only reads sites that exist, every step brings the return
\* nearer, and the sequence returned is the one a second call with the same
\* arguments computes.
C12_TotalDeterministic ==
    /\ [](LoopMeasure >= 0)
    /\ []((pc = "inner" /\ j < NumSites) => (0 <= i /\ i < NumSites /\ 0 <= j))
    /\ [](pc = "done" => bonds = calculateBonds(crystal, cfg))
    /\ [][LoopMeasure' < LoopMeasure]_vars

\* a return with bonds under maxCut < minCut and a negative scale factor
C12_Witness ==
    /\ pc = "done"
    /\ cfg.maxCut < cfg.minCut
    /\ cfg.scaleFactor < 0
    /\ Len(bonds) >= 2

\* C19: the result does not depend on the pbc flags: the structure with any
\* other flags gives the same bond sequence, the difference of every pair
\* being wrapped along all three axes.
C19_PbcFlagsIgnored ==
    pc = "done" =>
        /\ \A flags \in [1..3 -> BOOLEAN] :
              calculateBonds([crystal EXCEPT !.pbc = flags], cfg) = bonds
        /\ \A n \in 1..Len(bonds) :
              bonds[n].distance = PairDistance(bonds[n].atom1, bonds[n].atom2)

\* a structure not periodic along its first axis, with a bond whose
\* difference was wrapped along that axis
C19_Witness ==
    /\ pc = "done"
    /\ ~crystal.pbc[1]
    /\ \E n \in 1..Len(bonds) :
          MathRound(crystal.sites[bonds[n].atom2 + 1].frac[1]
                    - crystal.sites[bonds[n].atom1 + 1].frac[1]) # 0

\* the end-to-end scenario: Na at (0,0,0) and Cl at (0.5,0.5,0.5) in the 5 A
\* cubic cell under the store's default bonding
Scenario ==
    /\ crystal = [lattice |-> [matrix |-> Cubic5], pbc |-> <<TRUE, TRUE, TRUE>>,
                  sites |-> <<[element |-> "Na", frac |-> <<0, 0, 0>>],
                              [element |-> "Cl", frac |-> <<2, 2, 2>>]>>]
    /\ cfg = Config(11, 700, 3200, NoOverrides)

\* C25: in the end-to-end scenario the pair's periodic distance has square
\* 18.75 A^2, the clamped cutoff 1.1 * (1.55 + 0.99) is 2.794 A, and
\* calculateBonds returns the single bond (0, 1) if that cutoff is at least
\* the distance and no bond otherwise.
C25_EndToEndScenario ==
    (Scenario /\ pc = "done") =>
        /\ PairDistance(0, 1) = 16 * 18750000
        /\ CutoffOfPair(0, 1) = JsNum(2794)
        /\ IF 16 * 18750000 <= 16 * 2794 * 2794
           THEN /\ Len(bonds) = 1
                /\ bonds[1].atom1 = 0
                /\ bonds[1].atom2 = 1
           ELSE bonds = <<>>

C25_Witness ==
    /\ Scenario
    /\ pc = "done"
    /\ i = 2
    /\ bonds = <<>>

(***************************************************************************)
(* periodicDistance as a function of its arguments: the points, the        *)
(* lattice and a lattice translation are drawn at Init, the calls are the  *)
(* actions.                                                                *)
(***************************************************************************)
MaxFrac == 3

\* a fully triclinic cell
Triclinic == <<<<2000, 0, 0>>, <<-1000, 2000, 0>>, <<500, 500, 2000>>>>

FracValues == (1 - MaxFrac)..MaxFrac
DistPoints1 == {<<0, 0, 0>>, <<1, 2, -2>>, <<5, -3, 2>>}
DistPoints2 == FracValues \X FracValues \X FracValues
DistShifts == {<<1, 0, 0>>, <<-1, 2, 0>>, <<0, -3, 1>>}
\* an orthorhombic cell, 3 x 4 x 5 A
Ortho345 == <<<<3000, 0, 0>>, <<0, 4000, 0>>, <<0, 0, 5000>>>>
DistLattices == {Cubic5, Ortho345, Skew2, Triclinic}

\* frac + k, for k in whole cells
Translate(frac, k) == <<frac[1] + 4 * k[1], frac[2] + 4 * k[2], frac[3] + 4 * k[3]>>

InitDist ==
    /\ CallIdle
    /\ BondsIdle
    /\ LatticeIdle
    /\ RenderIdle
    /\ argFrac1 \in DistPoints1
    /\ argFrac2 \in DistPoints2
    /\ argShift \in DistShifts
    /\ argLattice \in DistLattices
    /\ dist = [forward |-> Pending, backward |-> Pending, shifted |-> Pending]

\* periodicDistance(frac1, frac2, latticeMatrix)
CallForward ==
    /\ ~dist.forward.done
    /\ dist' = [dist EXCEPT !.forward = Result(periodicDistance(argFrac1, argFrac2, argLattice))]
    /\ UNCHANGED <<bondVars, latVars, renVars, fnVars, argFrac1, argFrac2, argShift, argLattice>>

\* periodicDistance(frac2, frac1, latticeMatrix)
CallBackward ==
    /\ ~dist.backward.done
    /\ dist' = [dist EXCEPT !.backward = Result(periodicDistance(argFrac2, argFrac1, argLattice))]
    /\ UNCHANGED <<bondVars, latVars, renVars, fnVars, argFrac1, argFrac2, argShift, argLattice>>

\* periodicDistance(frac1, frac2 + k, latticeMatrix)
CallShifted ==
    /\ ~dist.shifted.done
    /\ dist' = [dist EXCEPT !.shifted =
                   Result(periodicDistance(argFrac1, Translate(argFrac2, argShift), argLattice))]
    /\ UNCHANGED <<bondVars, latVars, renVars, fnVars, argFrac1, argFrac2, argShift, argLattice>>

NextDist == CallForward \/ CallBackward \/ CallShifted

SpecDist == InitDist /\ [][NextDist]_vars

\* C6 (as claimed): periodicDistance(x, y, L) = periodicDistance(y, x, L) for
\* all points (half-cell differences included) and every lattice matrix.
C6_DistanceSymmetric ==
    (dist.forward.done /\ dist.backward.done) => dist.forward.v = dist.backward.v

MaxImage == 2
ImageShifts == (-MaxImage..MaxImage) \X (-MaxImage..MaxImage) \X (-MaxImage..MaxImage)

IsDiagonal(M) == \A r \in 1..3 : \A n \in 1..3 : r # n => M[r][n] = 0

\* 16 * |(frac2 + k - frac1) L|^2 in A^2, for a diagonal L of whole A
ImageNorm(k) ==
    LET c(n) == (argFrac2[n] + 4 * k[n] - argFrac1[n]) * (argLattice[n][n] \div 1000)
    IN  c(1) * c(1) + c(2) * c(2) + c(3) * c(3)

\* C29: under a diagonal lattice matrix periodicDistance(frac1, frac2, L) is
\* the least distance from frac1 to a periodic image frac2 + k of frac2: no
\* image is closer, and one image is at that distance.
C29_NearestImageOnDiagonal ==
    (dist.forward.done /\ IsDiagonal(argLattice)) =>
        /\ \A n \in 1..3 : argLattice[n][n] % 1000 = 0
        /\ dist.forward.v % 1000000 = 0
        /\ \A k \in ImageShifts : dist.forward.v \div 1000000 <= ImageNorm(k)
        /\ \E k \in ImageShifts : dist.forward.v \div 1000000 = ImageNorm(k)

\* a call under the orthorhombic cell whose difference is a half cell along
\* one axis and more than a cell along another
C29_Witness ==
    /\ dist.forward.done
    /\ argLattice[1][1] # argLattice[2][2]
    /\ IsDiagonal(argLattice)
    /\ (argFrac2[1] - argFrac1[1]) % 4 = 2
    /\ argFrac2[2] - argFrac1[2] > 4
    /\ dist.forward.v > 0

(***************************************************************************)
(* Lattice math (crystal.ts) in double arithmetic.                         *)
(*                                                                         *)
(* A double is NaN, +-Infinity, or a finite value (n / d) * eps^e, where   *)
(* eps = 6.123233995736766e-17 is Math.cos(Math.PI / 2): the angles of the *)
(* model are 0, 90 and 180 degrees, whose cosines and sines in doubles are *)
(* 1, eps, -1 and 0, 1, 2 * eps.  A sum of two finite values of different  *)
(* order in eps is the one of larger magnitude (the smaller is below half  *)
(* an ulp of the larger, up to one ulp).                                   *)
(***************************************************************************)
Abs(n) == IF n >= 0 THEN n ELSE -n
Sign(n) == IF n > 0 THEN 1 ELSE IF n < 0 THEN -1 ELSE 0

RECURSIVE Gcd(_, _)
Gcd(m, n) == IF n = 0 THEN m ELSE Gcd(n, m % n)

FNaN == [k |-> "nan", n |-> 0, d |-> 1, e |-> 0]
FInf(sgn) == [k |-> "inf", n |-> sgn, d |-> 1, e |-> 0]
Fin(n, d, e) ==
    IF n = 0 THEN [k |-> "fin", n |-> 0, d |-> 1, e |-> 0]
    ELSE LET g == Gcd(Abs(n), d)
         IN  [k |-> "fin", n |-> n \div g, d |-> d \div g, e |-> e]
FInt(n) == Fin(n, 1, 0)
FZero == FInt(0)

IsFinite(x) == x.k = "fin"

FNeg(x) == IF x.k = "nan" THEN FNaN ELSE [x EXCEPT !.n = -x.n]

FMul(x, y) ==
    IF x.k = "nan" \/ y.k = "nan" THEN FNaN
    ELSE IF x.k = "inf" \/ y.k = "inf"
         THEN IF x.n = 0 \/ y.n = 0 THEN FNaN ELSE FInf(Sign(x.n) * Sign(y.n))
    ELSE Fin(x.n * y.n, x.d * y.d, x.e + y.e)

FAdd(x, y) ==
    IF x.k = "nan" \/ y.k = "nan" THEN FNaN
    ELSE IF x.k = "inf" /\ y.k = "inf" THEN (IF x.n = y.n THEN x ELSE FNaN)
    ELSE IF x.k = "inf" THEN x
    ELSE IF y.k = "inf" THEN y
    ELSE IF x.n = 0 THEN y
    ELSE IF y.n = 0 THEN x
    ELSE IF x.e < y.e THEN x
    ELSE IF y.e < x.e THEN y
    ELSE Fin(x.n * y.d + y.n * x.d, x.d * y.d, x.e)

FSub(x, y) == FAdd(x, FNeg(y))

\* x / y; a zero divisor is +0 (Math.sin(0))
FDiv(x, y) ==
    IF x.k = "nan" \/ y.k = "nan" THEN FNaN
    ELSE IF x.k = "inf" THEN (IF y.k = "inf" THEN FNaN
                              ELSE FInf(x.n * (IF y.n < 0 THEN -1 ELSE 1)))
    ELSE IF y.k = "inf" THEN FZero
    ELSE IF y.n = 0 THEN (IF x.n = 0 THEN FNaN ELSE FInf(Sign(x.n)))
    ELSE Fin(x.n * y.d * Sign(y.n), x.d * Abs(y.n), x.e - y.e)

\* Math.sqrt: NaN below zero; the positive radicands that arise are squares
\* of integers
MathSqrt(x) ==
    IF x.k = "nan" THEN FNaN
    ELSE IF x.k = "inf" THEN (IF x.n > 0 THEN x ELSE FNaN)
    ELSE IF x.n < 0 THEN FNaN
    ELSE IF x.n = 0 THEN FZero
    ELSE Fin(CHOOSE r \in 1..x.n : r * r = x.n, CHOOSE r \in 1..x.d : r * r = x.d,
             x.e \div 2)

\* Math.cos(angle * Math.PI / 180) and Math.sin(angle * Math.PI / 180)
CosDegrees(angle) ==
    CASE angle = 0 -> FInt(1)
      [] angle = 90 -> Fin(1, 1, 1)
      [] angle = 180 -> FInt(-1)

SinDegrees(angle) ==
    CASE angle = 0 -> FZero
      [] angle = 90 -> FInt(1)
      [] angle = 180 -> Fin(2, 1, 1)

\* a, b, c, alpha, beta, gamma are doubles holding integers; the function
\* has no throw statement: it returns whatever the arithmetic yields
latticeParamsToMatrix(a, b, c, alpha, beta, gamma) ==
    LET bx == FMul(FInt(b), CosDegrees(gamma))
        by == FMul(FInt(b), SinDegrees(gamma))
        cx == FMul(FInt(c), CosDegrees(beta))
        cy == FDiv(FMul(FInt(c), FSub(CosDegrees(alpha),
                                      FMul(CosDegrees(beta), CosDegrees(gamma)))),
                   SinDegrees(gamma))
        cz == MathSqrt(FSub(FSub(FMul(FInt(c), FInt(c)), FMul(cx, cx)), FMul(cy, cy)))
    IN  <<<<FInt(a), FZero, FZero>>, <<bx, by, FZero>>, <<cx, cy, cz>>>>

\* the column-vector convention: matrix times frac
fracToCartesianColumn(frac, M) ==
    [n \in 1..3 |->
        FAdd(FAdd(FMul(Fin(frac[1], 4, 0), M[n][1]), FMul(Fin(frac[2], 4, 0), M[n][2])),
             FMul(Fin(frac[3], 4, 0), M[n][3]))]

\* frac (quarters) times the matrix, in doubles
fracToCartesian(frac, M) ==
    [n \in 1..3 |->
        FAdd(FAdd(FMul(Fin(frac[1], 4, 0), M[1][n]), FMul(Fin(frac[2], 4, 0), M[2][n])),
             FMul(Fin(frac[3], 4, 0), M[3][n]))]

(***************************************************************************)
(* CIFParser.parse.  The CIF text is taken as tokenised: `cell` lists the  *)
(* _cell_length_* / _cell_angle_* lines in file order as <<key, value>>,   *)
(* `atoms` the rows of the atom loop as [element, frac].                   *)
(***************************************************************************)
CellKeys == {"a", "b", "c", "alpha", "beta", "gamma"}

\* the first cell line creates latticeParams with the other fields 0,
\* a later one assigns its field
RECURSIVE ReadCell(_, _, _)
ReadCell(cell, n, latticeParams) ==
    IF n > Len(cell) THEN latticeParams
    ELSE ReadCell(cell, n + 1,
             IF latticeParams.null
             THEN [[kk \in CellKeys |-> 0] EXCEPT ![cell[n][1]] = cell[n][2]]
                      @@ [null |-> FALSE]
             ELSE [latticeParams EXCEPT ![cell[n][1]] = cell[n][2]])

NullParams == [kk \in CellKeys |-> 0] @@ [null |-> TRUE]

CIFLatticeParams(cif) == ReadCell(cif.cell, 1, NullParams)

\* the value of a parse that reaches `return crystal`
CIFCrystal(cif) ==
    LET lp == CIFLatticeParams(cif)
        matrix == latticeParamsToMatrix(lp.a, lp.b, lp.c, lp.alpha, lp.beta, lp.gamma)
    IN  [lattice |-> [matrix |-> matrix, a |-> lp.a, b |-> lp.b, c |-> lp.c,
                      alpha |-> lp.alpha, beta |-> lp.beta, gamma |-> lp.gamma],
         pbc |-> <<TRUE, TRUE, TRUE>>,
         sites |-> [n \in 1..Len(cif.atoms) |->
                       [element |-> cif.atoms[n].element,
                        frac |-> cif.atoms[n].frac,
                        occupancy |-> 1,
                        cartesian |-> fracToCartesian(cif.atoms[n].frac, matrix)]]]

Lengths == {<<5, 5, 5>>, <<3, 4, 5>>}
Angles == {0, 90, 180}
ParamSets == {<<l[1], l[2], l[3], al, be, ga>> :
                 l \in Lengths, al \in Angles, be \in Angles, ga \in Angles}

CellLines(ps) ==
    <<<<"a", ps[1]>>, <<"b", ps[2]>>, <<"c", ps[3]>>,
      <<"alpha", ps[4]>>, <<"beta", ps[5]>>, <<"gamma", ps[6]>>>>

\* complete cells, cells whose angle lines are missing, and no cell at all
CifCells == {CellLines(ps) : ps \in ParamSets}
            \cup {SubSeq(CellLines(ps), 1, 3) : ps \in ParamSets}
            \cup {<<>>}
CifAtoms == {<<>>,
             <<[element |-> "Na", frac |-> <<0, 0, 0>>],
               [element |-> "Cl", frac |-> <<2, 2, 2>>]>>}

InitLattice ==
    /\ CallIdle
    /\ BondsIdle
    /\ DistIdle
    /\ RenderIdle
    /\ lpIn \in ParamSets
    /\ lpOut = [status |-> "pending"]
    /\ cifIn \in {[cell |-> cl, atoms |-> at] : cl \in CifCells, at \in CifAtoms}
    /\ cifOut = [status |-> "pending"]

\* latticeParamsToMatrix(a, b, c, alpha, beta, gamma)
CallLatticeParamsToMatrix ==
    /\ lpOut.status = "pending"
    /\ lpOut' = [status |-> "returned",
                 value |-> latticeParamsToMatrix(lpIn[1], lpIn[2], lpIn[3],
                                                 lpIn[4], lpIn[5], lpIn[6])]
    /\ UNCHANGED <<bondVars, distVars, renVars, fnVars, lpIn, cifIn, cifOut>>

\* CIFParser.parse(cifText): no cell line at all
CIFParseThrows ==
    /\ cifOut.status = "pending"
    /\ CIFLatticeParams(cifIn).null
    /\ cifOut' = [status |-> "thrown",
                  value |-> "Missing lattice parameters in CIF file"]
    /\ UNCHANGED <<bondVars, distVars, renVars, fnVars, lpIn, lpOut, cifIn>>

\* CIFParser.parse(cifText): the structure is built and returned
CIFParseReturns ==
    /\ cifOut.status = "pending"
    /\ ~CIFLatticeParams(cifIn).null
    /\ cifOut' = [status |-> "returned", value |-> CIFCrystal(cifIn)]
    /\ UNCHANGED <<bondVars, distVars, renVars, fnVars, lpIn, lpOut, cifIn>>

NextLattice == CallLatticeParamsToMatrix \/ CIFParseThrows \/ CIFParseReturns

SpecLattice == InitLattice /\ [][NextLattice]_vars

MatrixFinite(M) == \A r \in 1..3 : \A n \in 1..3 : IsFinite(M[r][n])

\* C8 (as claimed): an invalid lattice is an error at matrix construction:
\* latticeParamsToMatrix raises for gamma = 0 or 180 degrees, and neither it
\* nor CIFParser.parse ever returns a matrix with a NaN or infinite entry.
C8_InvalidLatticeRaises ==
    /\ lpOut.status = "returned" =>
          /\ lpIn[6] \notin {0, 180}
          /\ MatrixFinite(lpOut.value)
    /\ cifOut.status = "returned" =>
          /\ cifOut.value.lattice.gamma \notin {0, 180}
          /\ MatrixFinite(cifOut.value.lattice.matrix)

\* C23 (as claimed): with alpha = beta = gamma = 90 degrees
\* latticeParamsToMatrix returns exactly diag(a, b, c): the diagonal entries
\* are a, b, c and every off-diagonal entry is 0.
C23_OrthogonalIsDiagonal ==
    (lpOut.status = "returned" /\ lpIn[4] = 90 /\ lpIn[5] = 90 /\ lpIn[6] = 90) =>
        lpOut.value = <<<<FInt(lpIn[1]), FZero, FZero>>,
                        <<FZero, FInt(lpIn[2]), FZero>>,
                        <<FZero, FZero, FInt(lpIn[3])>>>>

(***************************************************************************)
(* The scene: the store, CrystalRenderer and the Viewer that ties them.     *)
(* A crystal is named; a renderer object records the crystal it was built  *)
(* from and whether it has a parent (is attached to the scene).            *)
(***************************************************************************)
Site(e, f, c) == [element |-> e, frac |-> f, cart |-> c]

SceneCrystals == {"cubic", "sheared", "five", "empty", "bare", "mixed"}

\* Na and Cl 4.33 A apart in the cubic cell and 2.06 A apart in the sheared
\* one; five sites (enough neighbours for polyhedra); no site at all; sites
\* written without the optional cartesian field; sites of which only some
\* bring it
CrystalOf(name) ==
    CASE name = "cubic" ->
           [lattice |-> [matrix |-> Cubic5], pbc |-> <<TRUE, TRUE, TRUE>>,
            sites |-> <<Site("Na", <<0, 0, 0>>, TRUE), Site("Cl", <<2, 2, 2>>, TRUE)>>]
      [] name = "sheared" ->
           [lattice |-> [matrix |-> Skew2], pbc |-> <<TRUE, TRUE, TRUE>>,
            sites |-> <<Site("Na", <<0, 0, 0>>, TRUE), Site("Cl", <<2, 2, 2>>, TRUE)>>]
      [] name = "five" ->
           [lattice |-> [matrix |-> Skew2], pbc |-> <<TRUE, TRUE, TRUE>>,
            sites |-> <<Site("Na", <<0, 0, 0>>, TRUE), Site("Cl", <<2, 2, 2>>, TRUE),
                        Site("H", <<1, 0, 0>>, TRUE), Site("Cl", <<2, 1, 0>>, TRUE),
                        Site("Na", <<0, 2, 2>>, TRUE)>>]
      [] name = "bare" ->
           [lattice |-> [matrix |-> Skew2], pbc |-> <<TRUE, TRUE, TRUE>>,
            sites |-> <<Site("Na", <<0, 0, 0>>, FALSE), Site("Cl", <<2, 2, 2>>, FALSE),
                        Site("H", <<1, 0, 0>>, FALSE), Site("Cl", <<2, 1, 0>>, FALSE)>>]
      [] name = "mixed" ->
           [lattice |-> [matrix |-> Skew2], pbc |-> <<TRUE, TRUE, TRUE>>,
            sites |-> <<Site("Na", <<0, 0, 0>>, TRUE), Site("Cl", <<2, 2, 2>>, FALSE),
                        Site("H", <<1, 0, 0>>, TRUE), Site("Cl", <<2, 1, 0>>, TRUE)>>]
      [] OTHER ->
           [lattice |-> [matrix |-> Cubic5], pbc |-> <<TRUE, TRUE, TRUE>>, sites |-> <<>>]

\* the arguments renderBonds hands to calculateBonds
BondingConfig(b) == Config(b.f, b.min, b.max, b.pairOverrides)

\* the bonding panel's slider: { ...bonding, f: value }, value in [0.8, 1.5]
SliderValues == {8, 11, 15}

\* THREE.Object3D.parent, Scene.add and Scene.remove
Attached(o) == o.kind # "null" /\ o.parent
SceneAdd(o) == [o EXCEPT !.parent = TRUE]
\* a plausible slip: the object is left in the scene
SceneRemoveSkipped(o) == o
SceneRemove(o) == [o EXCEPT !.parent = FALSE]
\* an object still in the scene when the renderer lets go of it
Orphaned(o) == IF Attached(o) THEN {o} ELSE {}

Ok(v) == [thrown |-> FALSE, value |-> v]
Threw(v) == [thrown |-> TRUE, value |-> v]

\* createInstancedAtoms(sites): reduce over no element throws a TypeError; a
\* site without cartesian keeps the identity matrix
createInstancedAtoms(name) ==
    LET sites == CrystalOf(name).sites IN
    IF Len(sites) = 0
    THEN Threw(NullObject)
    ELSE Ok([kind |-> "atoms", crystal |-> name, count |-> Len(sites),
             placed |-> {n \in 1..Len(sites) : sites[n].cart}, parent |-> FALSE])

\* createInstancedBonds(bonds, sites): one instance per bond; a bond between
\* sites without cartesian keeps the identity matrix
createInstancedBonds(bs, name) ==
    LET sites == CrystalOf(name).sites IN
    [kind |-> "bonds", crystal |-> name, bonds |-> bs, count |-> Len(bs),
     placed |-> {n \in 1..Len(bs) :
                    sites[bs[n].atom1 + 1].cart /\ sites[bs[n].atom2 + 1].cart},
     parent |-> FALSE]

\* createPolyhedronMesh(center, neighbors): throws without cartesian; fewer
\* than 4 neighbours give a group without faces
createPolyhedronMesh(name, center, neighbors) ==
    IF ~center.cart \/ \E n \in 1..Len(neighbors) : ~neighbors[n].cart
    THEN Threw(NullObject)
    ELSE Ok([kind |-> "polyhedron", crystal |-> name, center |-> center,
             faces |-> Len(neighbors) >= 4, parent |-> FALSE])

\* a plausible slip: the fields are reset without scene.remove
clearFieldsOnly(r) ==
    [r EXCEPT !.atoms = NullObject, !.bonds = NullObject, !.polyhedra = <<>>,
              !.orphans = @ \cup Orphaned(r.atoms) \cup Orphaned(r.bonds)
                            \cup {r.polyhedra[n] : n \in {m \in 1..Len(r.polyhedra) :
                                                            r.polyhedra[m].parent}}]

\* CrystalRenderer.clear(): every held object leaves the scene and the fields
clear(r) ==
    [r EXCEPT !.atoms = NullObject, !.bonds = NullObject, !.polyhedra = <<>>]

\* CrystalRenderer.renderAtoms()
renderAtoms(r) ==
    IF r.crystal = "null" THEN Ok(r)
    ELSE LET made == createInstancedAtoms(r.crystal) IN
         IF made.thrown THEN Threw(r)
         ELSE Ok([r EXCEPT !.atoms = SceneAdd(made.value),
                           !.orphans = @ \cup Orphaned(r.atoms)])

\* CrystalRenderer.renderBonds(): bonds of the renderer's crystal under the
\* store's bonding; attached only when showBonds
renderBonds(r, st) ==
    IF r.crystal = "null" THEN Ok(r)
    ELSE LET bs == calculateBonds(CrystalOf(r.crystal), BondingConfig(st.bonding))
             mesh == createInstancedBonds(bs, r.crystal)
         IN Ok([r EXCEPT !.bonds = IF st.showBonds THEN SceneAdd(mesh) ELSE mesh,
                         !.orphans = @ \cup Orphaned(r.bonds)])

\* the first (at most 6) sites other than the center, lines 97-104
Neighbors(sites, k) ==
    LET others == [n \in 1..(Len(sites) - 1) |-> sites[IF n < k THEN n ELSE n + 1]]
    IN SubSeq(others, 1, IntMin(6, Len(others)))

\* the loop of renderPolyhedra from center k on; a throw leaves the groups
\* made so far in the list and in the scene
RECURSIVE PolyhedraFrom(_, _, _)
PolyhedraFrom(name, k, acc) ==
    LET sites == CrystalOf(name).sites IN
    IF k > IntMin(5, Len(sites)) THEN Ok(acc)
    ELSE IF Len(Neighbors(sites, k)) >= 3
         THEN LET made == createPolyhedronMesh(name, sites[k], Neighbors(sites, k)) IN
              IF made.thrown THEN Threw(acc)
              ELSE PolyhedraFrom(name, k + 1, Append(acc, SceneAdd(made.value)))
         ELSE PolyhedraFrom(name, k + 1, acc)

\* CrystalRenderer.renderPolyhedra()
renderPolyhedra(r, st) ==
    IF r.crystal = "null" THEN Ok(r)
    ELSE IF ~st.showPolyhedra THEN Ok([r EXCEPT !.polyhedra = <<>>])
    ELSE LET made == PolyhedraFrom(r.crystal, 1, <<>>) IN
         [thrown |-> made.thrown, value |-> [r EXCEPT !.polyhedra = made.value]]

\* CrystalRenderer.update()
update(r, st) ==
    IF r.crystal = "null" THEN Ok(r)
    ELSE LET b == r.bonds
             r1 == IF b.kind = "null" THEN r
                   ELSE IF st.showBonds /\ ~b.parent THEN [r EXCEPT !.bonds = SceneAdd(b)]
                   ELSE IF ~st.showBonds /\ b.parent THEN [r EXCEPT !.bonds = SceneRemove(b)]
                   ELSE r
             showingPolyhedra == \E n \in 1..Len(r1.polyhedra) : r1.polyhedra[n].parent
         IN IF st.showPolyhedra /\ ~showingPolyhedra THEN renderPolyhedra(r1, st)
            ELSE IF ~st.showPolyhedra /\ showingPolyhedra
                 THEN Ok([r1 EXCEPT !.polyhedra =
                            [n \in 1..Len(r1.polyhedra) |-> SceneRemove(r1.polyhedra[n])]])
            ELSE Ok(r1)

\* CrystalRenderer.loadCrystal(crystal); a throw ends it where it stands
loadCrystal(r, st, name) ==
    LET cleared == clear([r EXCEPT !.crystal = name])
        a == renderAtoms(cleared)
        b == renderBonds(a.value, st)
    IN IF a.thrown THEN a
       ELSE IF b.thrown THEN b
       ELSE renderPolyhedra(b.value, st)

\* Viewer.handleStateChange(), the store's subscriber: what update() leaves
\* of the renderer once the store holds st
handleStateChange(r, st) == update(r, st).value

\* Viewer.loadCrystal(crystal): setCrystal, whose subscriber may throw, then
\* CrystalRenderer.loadCrystal
ViewerLoadCrystal ==
    \E name \in SceneCrystals :
        LET st == [store EXCEPT !.crystal = name]
            notified == update(ren, st)
        IN /\ store' = st
           /\ ren' = IF notified.thrown THEN notified.value
                     ELSE loadCrystal(notified.value, st, name).value
           /\ UNCHANGED <<bondVars, distVars, latVars, fnVars, disposed>>

\* the bonding panel's slider: setBonding({ ...bonding, f: value }), then the
\* subscriber
SetBonding ==
    \E value \in SliderValues :
        LET st == [store EXCEPT !.bonding = [store.bonding EXCEPT !.f = value]] IN
        /\ store' = st
        /\ ren' = handleStateChange(ren, st)
        /\ UNCHANGED <<bondVars, distVars, latVars, fnVars, disposed>>

\* setShowBonds(show), then the subscriber
SetShowBonds ==
    \E show \in BOOLEAN :
        LET st == [store EXCEPT !.showBonds = show] IN
        /\ store' = st
        /\ ren' = handleStateChange(ren, st)
        /\ UNCHANGED <<bondVars, distVars, latVars, fnVars, disposed>>

\* setShowPolyhedra(show), then the subscriber
SetShowPolyhedra ==
    \E show \in BOOLEAN :
        LET st == [store EXCEPT !.showPolyhedra = show] IN
        /\ store' = st
        /\ ren' = handleStateChange(ren, st)
        /\ UNCHANGED <<bondVars, distVars, latVars, fnVars, disposed>>

\* setShowAxes(show), then the subscriber
SetShowAxes ==
    \E show \in BOOLEAN :
        LET st == [store EXCEPT !.showAxes = show] IN
        /\ store' = st
        /\ ren' = handleStateChange(ren, st)
        /\ UNCHANGED <<bondVars, distVars, latVars, fnVars, disposed>>

\* Viewer.dispose(): CrystalRenderer.dispose() clears; the subscription stays
ViewerDispose ==
    /\ disposed' = TRUE
    /\ ren' = clear(ren)
    /\ UNCHANGED <<bondVars, distVars, latVars, fnVars, store>>

InitRender ==
    /\ CallIdle
    /\ BondsIdle
    /\ DistIdle
    /\ LatticeIdle
    /\ RenderIdle

NextRender ==
    \/ ViewerLoadCrystal
    \/ SetBonding
    \/ SetShowBonds
    \/ SetShowPolyhedra
    \/ SetShowAxes
    \/ ViewerDispose

SpecRender == InitRender /\ [][NextRender]_vars

\* C9 (as claimed): the bonds mesh held by the renderer is always the one
\* calculateBonds gives for the loaded structure under the store's current
\* bonding configuration; no bond list of an earlier configuration is held.
C9_HeldBondsMatchStore ==
    ren.bonds.kind # "null" =>
        ren.bonds.bonds = calculateBonds(CrystalOf(ren.crystal), BondingConfig(store.bonding))

\* C26: whenever loadCrystal or a store change with its update() has run to
\* its end, the bonds mesh the renderer holds is attached to the scene if and
\* only if the store's showBonds flag is set.
C26_BondsAttachedIffShown ==
    ren.bonds.kind # "null" => (ren.bonds.parent <=> store.showBonds)

\* a mesh built and attached at load time, detached by setShowBonds(false)
C26_Witness ==
    /\ ren.bonds.kind = "bonds"
    /\ ren.bonds.count > 0
    /\ ~ren.bonds.parent
    /\ ~store.showBonds
    /\ ren.atoms.kind = "atoms"
    /\ ren.atoms.parent

\* the objects a renderer holds that are in the scene
HeldInScene(r) ==
    Orphaned(r.atoms) \cup Orphaned(r.bonds)
        \cup {r.polyhedra[n] : n \in {m \in 1..Len(r.polyhedra) : r.polyhedra[m].parent}}

\* C27 (as claimed): dispose() leaves no object of the renderer in the scene,
\* and no store change after it attaches one again.  (A step that leaves the
\* atoms field null is a store change: loading a structure sets the field or
\* throws before anything is attached.)
C27_NothingAttachedAfterDispose ==
    [][/\ (~disposed /\ disposed') => (HeldInScene(ren') \cup ren'.orphans = {})
       /\ (disposed /\ ren'.atoms = NullObject) => (HeldInScene(ren') \cup ren'.orphans = {})
      ]_vars

\* C28: the scene never holds an object of the renderer that the renderer no
\* longer holds (so at most one atoms mesh, at most one bonds mesh, and only
\* polyhedra of the current list), and every object of the renderer in the
\* scene was built from the structure loaded last.
C28_SceneHoldsCurrentObjectsOnly ==
    /\ ren.orphans = {}
    /\ \A o \in HeldInScene(ren) : o.crystal = ren.crystal
    /\ \A n \in 1..Len(ren.polyhedra) : ren.polyhedra[n].crystal = ren.crystal

\* atoms, bonds and five polyhedra of the five-site structure in the scene
C28_Witness ==
    /\ ren.crystal = "five"
    /\ Attached(ren.atoms)
    /\ Attached(ren.bonds)
    /\ Len(ren.polyhedra) = 5
    /\ \A n \in 1..5 : ren.polyhedra[n].parent
    /\ Cardinality(HeldInScene(ren)) = 7

(***************************************************************************)
(* wrapFractional and minimumImage as functions of their argument: the     *)
(* vector is drawn at Init, the calls are the actions.  minimumImage is     *)
(* called for the vectors on the grid of quarters.                         *)
(***************************************************************************)
MaxWhole == 2

\* every quarter within MaxWhole of 0, and the doubles next to 0
WrapValues == {OnGrid(q) : q \in (-4 * MaxWhole)..(4 * MaxWhole)} \cup {Near(0, -1), Near(0, 1)}
WrapVectors == {<<x, y, z>> : x \in WrapValues, y \in {OnGrid(0), OnGrid(-2)}, z \in WrapValues}

IsOnGrid(frac) == \A n \in 1..3 : frac[n].e = 0
Quarters(frac) == [n \in 1..3 |-> frac[n].q]

InitWrap ==
    /\ BondsIdle
    /\ DistIdle
    /\ LatticeIdle
    /\ RenderIdle
    /\ \E frac \in WrapVectors :
          call = [fn |-> "wrap", frac |-> frac, wrapped |-> Pending,
                  rewrapped |-> Pending, image |-> Pending]

\* wrapFractional(frac)
CallWrapFractional ==
    /\ call.fn = "wrap"
    /\ ~call.wrapped.done
    /\ call' = [call EXCEPT !.wrapped = Result(wrapFractional(call.frac))]
    /\ UNCHANGED <<bondVars, distVars, latVars, renVars>>

\* wrapFractional(wrapFractional(frac))
CallWrapFractionalAgain ==
    /\ call.fn = "wrap"
    /\ call.wrapped.done
    /\ ~call.rewrapped.done
    /\ call' = [call EXCEPT !.rewrapped = Result(wrapFractional(call.wrapped.v))]
    /\ UNCHANGED <<bondVars, distVars, latVars, renVars>>

\* minimumImage(frac)
CallMinimumImage ==
    /\ call.fn = "wrap"
    /\ IsOnGrid(call.frac)
    /\ ~call.image.done
    /\ call' = [call EXCEPT !.image = Result(minimumImage(Quarters(call.frac)))]
    /\ UNCHANGED <<bondVars, distVars, latVars, renVars>>

NextWrap == CallWrapFractional \/ CallWrapFractionalAgain \/ CallMinimumImage

SpecWrap == InitWrap /\ [][NextWrap]_vars

\* C13: each component of minimumImage(frac) is f - round(f), the value
\* congruent to f modulo 1 in [-0.5, 0.5); half-integers of either sign give
\* -0.5.
C13_MinimumImageRange ==
    call.image.done =>
        \A n \in 1..3 :
            /\ call.image.v[n] = ((call.frac[n].q + 2) % 4) - 2
            /\ -2 <= call.image.v[n]
            /\ call.image.v[n] < 2

\* a vector with a component at +0.5 or beyond and one at -0.5 or beyond
C13_Witness ==
    /\ call.image.done
    /\ call.frac[1].q \in {2, 6}
    /\ call.frac[3].q \in {-2, -6}
    /\ call.image.v[1] = -2
    /\ call.image.v[3] = -2

\* C14 (as claimed): each component of wrapFractional(frac) is in [0, 1) and
\* never equal to 1.
C14_WrapFractionalRange ==
    call.wrapped.done =>
        \A n \in 1..3 :
            /\ 0 <= call.wrapped.v[n].q
            /\ call.wrapped.v[n].q < 4
            /\ call.wrapped.v[n].q = 0 => call.wrapped.v[n].e >= 0

\* C15 (as claimed): wrapFractional(wrapFractional(f)) = wrapFractional(f).
C15_WrapFractionalIdempotent ==
    call.rewrapped.done => call.rewrapped.v = call.wrapped.v

(***************************************************************************)
(* The round trip fracToCartesian, then POSCARParser.cartesianToFractional. *)
(* Values are the finite doubles (n / d) of the lattice math above; a       *)
(* quotient that is no double stands for the double nearest to it, so that  *)
(* equality is equality up to that rounding.                                *)
(***************************************************************************)
\* the determinant and the inverse by cofactors, lines 130-152
InverseLattice(lattice) ==
    LET L(r, n) == lattice[r + 1][n + 1]
        Minor(p, q, r, t) == FSub(FMul(L(p[1], p[2]), L(q[1], q[2])),
                                  FMul(L(r[1], r[2]), L(t[1], t[2])))
        det == FAdd(FSub(FMul(L(0, 0), Minor(<<1, 1>>, <<2, 2>>, <<1, 2>>, <<2, 1>>)),
                         FMul(L(0, 1), Minor(<<1, 0>>, <<2, 2>>, <<1, 2>>, <<2, 0>>))),
                    FMul(L(0, 2), Minor(<<1, 0>>, <<2, 1>>, <<1, 1>>, <<2, 0>>)))
    IN  <<<<FDiv(Minor(<<1, 1>>, <<2, 2>>, <<1, 2>>, <<2, 1>>), det),
            FDiv(Minor(<<0, 2>>, <<2, 1>>, <<0, 1>>, <<2, 2>>), det),
            FDiv(Minor(<<0, 1>>, <<1, 2>>, <<0, 2>>, <<1, 1>>), det)>>,
          <<FDiv(Minor(<<1, 2>>, <<2, 0>>, <<1, 0>>, <<2, 2>>), det),
            FDiv(Minor(<<0, 0>>, <<2, 2>>, <<0, 2>>, <<2, 0>>), det),
            FDiv(Minor(<<0, 2>>, <<1, 0>>, <<0, 0>>, <<1, 2>>), det)>>,
          <<FDiv(Minor(<<1, 0>>, <<2, 1>>, <<1, 1>>, <<2, 0>>), det),
            FDiv(Minor(<<0, 1>>, <<2, 0>>, <<0, 0>>, <<2, 1>>), det),
            FDiv(Minor(<<0, 0>>, <<1, 1>>, <<0, 1>>, <<1, 0>>), det)>>>>

\* a plausible slip: the column-vector convention, inverse times cart
cartesianToFractionalTransposed(cart, lattice) ==
    LET invLattice == InverseLattice(lattice) IN
    [n \in 1..3 |->
        FAdd(FAdd(FMul(cart[1], invLattice[n][1]), FMul(cart[2], invLattice[n][2])),
             FMul(cart[3], invLattice[n][3]))]

\* POSCARParser.cartesianToFractional(cart, lattice): row vector times inverse
cartesianToFractional(cart, lattice) ==
    LET invLattice == InverseLattice(lattice) IN
    [n \in 1..3 |->
        FAdd(FAdd(FMul(cart[1], invLattice[1][n]), FMul(cart[2], invLattice[2][n])),
             FMul(cart[3], invLattice[3][n]))]

\* lattice matrices in A: cubic, sheared, triclinic, left-handed
FMatrix(M) == [r \in 1..3 |-> [n \in 1..3 |-> Fin(M[r][n][1], M[r][n][2], 0)]]
TripLattices ==
    {FMatrix(<<<<<<5, 1>>, <<0, 1>>, <<0, 1>>>>, <<<<0, 1>>, <<5, 1>>, <<0, 1>>>>,
               <<<<0, 1>>, <<0, 1>>, <<5, 1>>>>>>),
     FMatrix(<<<<<<2, 1>>, <<0, 1>>, <<0, 1>>>>, <<<<1, 1>>, <<2, 1>>, <<0, 1>>>>,
               <<<<0, 1>>, <<0, 1>>, <<2, 1>>>>>>),
     FMatrix(<<<<<<2, 1>>, <<0, 1>>, <<0, 1>>>>, <<<<-1, 1>>, <<2, 1>>, <<0, 1>>>>,
               <<<<1, 2>>, <<1, 2>>, <<2, 1>>>>>>),
     FMatrix(<<<<<<0, 1>>, <<3, 1>>, <<1, 1>>>>, <<<<2, 1>>, <<0, 1>>, <<0, 1>>>>,
               <<<<0, 1>>, <<1, 1>>, <<4, 1>>>>>>)}

FVector(frac) == [n \in 1..3 |-> Fin(frac[n], 4, 0)]

InitTrip ==
    /\ BondsIdle
    /\ DistIdle
    /\ LatticeIdle
    /\ RenderIdle
    /\ \E frac \in DistPoints2, lattice \in TripLattices :
          call = [fn |-> "trip", frac |-> frac, lattice |-> lattice,
                  cart |-> Pending, back |-> Pending]

\* fracToCartesian(frac, lattice)
CallFracToCartesian ==
    /\ call.fn = "trip"
    /\ ~call.cart.done
    /\ call' = [call EXCEPT !.cart = Result(fracToCartesian(call.frac, call.lattice))]
    /\ UNCHANGED <<bondVars, distVars, latVars, renVars>>

\* cartesianToFractional(cart, lattice) of the Cartesian vector obtained
CallCartesianToFractional ==
    /\ call.fn = "trip"
    /\ call.cart.done
    /\ ~call.back.done
    /\ call' = [call EXCEPT !.back = Result(cartesianToFractional(call.cart.v, call.lattice))]
    /\ UNCHANGED <<bondVars, distVars, latVars, renVars>>

NextTrip == CallFracToCartesian \/ CallCartesianToFractional

SpecTrip == InitTrip /\ [][NextTrip]_vars

\* C16: for a lattice matrix of non-zero determinant,
\* cartesianToFractional(fracToCartesian(f, L), L) recovers f.
C16_RoundTrip ==
    call.back.done => call.back.v = FVector(call.frac)

\* the round trip made under a matrix that is not symmetric, for a vector
\* with three different non-zero components
C16_Witness ==
    /\ call.back.done
    /\ call.lattice[2][1] # call.lattice[1][2]
    /\ call.frac[1] # 0 /\ call.frac[2] # 0 /\ call.frac[3] # 0
    /\ call.frac[1] # call.frac[2] /\ call.frac[2] # call.frac[3]
    /\ call.frac[1] # call.frac[3]

(***************************************************************************)
(* JSONParser.parse and POSCARParser.parse: the coordinates of the sites   *)
(* of the structure returned.  The text is taken as parsed (JSON.parse) or  *)
(* tokenised (POSCAR lines); coordinates in the returned sites are doubles. *)
(***************************************************************************)
MaxParsedSites == 2

\* fracToCartesian of a vector of doubles
CartesianOf(frac, M) ==
    [n \in 1..3 |->
        FAdd(FAdd(FMul(frac[1], M[1][n]), FMul(frac[2], M[2][n])), FMul(frac[3], M[3][n]))]

NoVector == <<>>

\* JSON sites: frac only; frac with the Cartesian vector it maps to; frac
\* with another Cartesian vector; Cartesian only
JsonSiteKinds ==
    {[frac |-> f, cartesian |-> k] :
        f \in {<<1, 2, 3>>, <<0, -2, 5>>}, k \in {"absent", "agreeing", "other"}}
    \cup {[frac |-> NoVector, cartesian |-> "other"]}

JsonSite(kind, matrix) ==
    [element |-> "Si",
     frac |-> IF kind.frac = NoVector THEN NoVector ELSE FVector(kind.frac),
     cartesian |-> CASE kind.cartesian = "absent" -> NoVector
                     [] kind.cartesian = "agreeing" -> fracToCartesian(kind.frac, matrix)
                     [] OTHER -> FVector(<<4, 4, 4>>)]

JsonSiteSeqs == UNION {[1..n -> JsonSiteKinds] : n \in 0..MaxParsedSites}

\* the value of JSON.parse(jsonText)
JsonData ==
    {[lattice |-> [matrix |-> M], hasSites |-> TRUE,
      sites |-> [n \in 1..Len(ks) |-> JsonSite(ks[n], M)]] :
        M \in TripLattices, ks \in JsonSiteSeqs}
    \cup {[lattice |-> [matrix |-> NoVector], hasSites |-> TRUE, sites |-> <<>>],
          [lattice |-> [matrix |-> CHOOSE M \in TripLattices : TRUE], hasSites |-> FALSE,
           sites |-> <<>>]}

\* the condition of the two throws of JSONParser.parse
JSONParseRejects(data) == data.lattice.matrix = NoVector \/ ~data.hasSites

\* site.frac && !site.cartesian: the Cartesian vector is computed only when
\* the site brings none; one that is brought is kept as it is
JSONParsedSite(site, latticeMatrix) ==
    IF site.frac # NoVector /\ site.cartesian = NoVector
    THEN [site EXCEPT !.cartesian = CartesianOf(site.frac, latticeMatrix)]
    ELSE site

\* the structure JSONParser.parse returns
JSONCrystal(data) ==
    [lattice |-> data.lattice,
     pbc |-> <<TRUE, TRUE, TRUE>>,
     sites |-> [n \in 1..Len(data.sites) |->
                   JSONParsedSite(data.sites[n], data.lattice.matrix)]]

\* POSCAR text: scale factor, lattice vectors, one element block of `count`
\* atoms, Direct or Cartesian, and the coordinate lines (in quarters)
PoscarCoords == {<<1, 2, 3>>, <<0, -2, 5>>, <<4, 0, 2>>}
PoscarTexts ==
    {[short |-> FALSE, scaleFactor |-> sc, latticeVectors |-> M, direct |-> dr,
      count |-> cnt, coords |-> cs] :
        sc \in {1, 2}, M \in TripLattices, dr \in BOOLEAN, cnt \in 1..MaxParsedSites,
        cs \in UNION {[1..n -> PoscarCoords] : n \in 1..MaxParsedSites}}
    \cup {[short |-> TRUE, scaleFactor |-> 1, latticeVectors |-> NoVector, direct |-> TRUE,
           count |-> 0, coords |-> <<>>]}

\* fewer than 8 lines, or fewer coordinate lines than atoms announced
POSCARParseRejects(text) == text.short \/ text.count > Len(text.coords)

scaledLattice(text) ==
    [r \in 1..3 |-> [n \in 1..3 |-> FMul(text.latticeVectors[r][n], FInt(text.scaleFactor))]]

\* one site of POSCARParser.parse, lines 76-94
POSCARSite(coords, direct, lattice) ==
    [element |-> "Si",
     frac |-> IF direct THEN FVector(coords)
              ELSE cartesianToFractional(FVector(coords), lattice),
     occupancy |-> 1,
     cartesian |-> IF direct THEN fracToCartesian(coords, lattice) ELSE FVector(coords)]

\* the structure POSCARParser.parse returns (matrix and sites)
POSCARCrystal(text) ==
    [lattice |-> [matrix |-> scaledLattice(text)],
     pbc |-> <<TRUE, TRUE, TRUE>>,
     sites |-> [n \in 1..text.count |->
                   POSCARSite(text.coords[n], text.direct, scaledLattice(text))]]

InitParse ==
    /\ BondsIdle
    /\ DistIdle
    /\ LatticeIdle
    /\ RenderIdle
    /\ \/ \E data \in JsonData :
             call = [fn |-> "JSONParser.parse", input |-> data, out |-> [status |-> "pending"]]
       \/ \E text \in PoscarTexts :
             call = [fn |-> "POSCARParser.parse", input |-> text,
                     out |-> [status |-> "pending"]]

JSONParseThrows ==
    /\ call.fn = "JSONParser.parse"
    /\ call.out.status = "pending"
    /\ JSONParseRejects(call.input)
    /\ call' = [call EXCEPT !.out = [status |-> "thrown"]]
    /\ UNCHANGED <<bondVars, distVars, latVars, renVars>>

JSONParseReturns ==
    /\ call.fn = "JSONParser.parse"
    /\ call.out.status = "pending"
    /\ ~JSONParseRejects(call.input)
    /\ call' = [call EXCEPT !.out = [status |-> "returned", value |-> JSONCrystal(call.input)]]
    /\ UNCHANGED <<bondVars, distVars, latVars, renVars>>

POSCARParseThrows ==
    /\ call.fn = "POSCARParser.parse"
    /\ call.out.status = "pending"
    /\ POSCARParseRejects(call.input)
    /\ call' = [call EXCEPT !.out = [status |-> "thrown"]]
    /\ UNCHANGED <<bondVars, distVars, latVars, renVars>>

POSCARParseReturns ==
    /\ call.fn = "POSCARParser.parse"
    /\ call.out.status = "pending"
    /\ ~POSCARParseRejects(call.input)
    /\ call' = [call EXCEPT !.out =
                   [status |-> "returned", value |-> POSCARCrystal(call.input)]]
    /\ UNCHANGED <<bondVars, distVars, latVars, renVars>>

NextParse == JSONParseThrows \/ JSONParseReturns \/ POSCARParseThrows \/ POSCARParseReturns

SpecParse == InitParse /\ [][NextParse]_vars

\* C17 (as claimed): in every structure a parser returns, a site that has
\* both coordinate vectors has cartesian = fracToCartesian(frac, matrix).
C17_CartesianAgreesWithFrac ==
    call.out.status = "returned" =>
        \A n \in 1..Len(call.out.value.sites) :
            LET site == call.out.value.sites[n] IN
            (site.frac # NoVector /\ site.cartesian # NoVector) =>
                site.cartesian = CartesianOf(site.frac, call.out.value.lattice.matrix)

(***************************************************************************)
(* The mesh builders of rendering/ as functions of their arguments: the    *)
(* structure is drawn at Init, one call of a builder is an action.         *)
(***************************************************************************)
\* createBondMesh(site1, site2): throws unless both sites carry cartesian
createBondMesh(site1, site2) ==
    IF ~site1.cart \/ ~site2.cart
    THEN Threw(NullObject)
    ELSE Ok([kind |-> "bond", from |-> site1, to |-> site2, parent |-> FALSE])

\* the site indices (from 1) a bond list refers to
BondedSites(bs) ==
    {bs[n].atom1 + 1 : n \in 1..Len(bs)} \cup {bs[n].atom2 + 1 : n \in 1..Len(bs)}

\* a finished call: the builder, its arguments, the sites it was handed and
\* its outcome
MeshCall(name, op, args, used, out) ==
    [fn |-> "mesh", crystal |-> name, op |-> op, args |-> args, used |-> used, out |-> out]

InitMesh ==
    /\ BondsIdle
    /\ DistIdle
    /\ LatticeIdle
    /\ RenderIdle
    /\ \E name \in SceneCrystals :
          call = MeshCall(name, "none", <<>>, {}, Ok(NullObject))

CallCreateBondMesh ==
    /\ call.op = "none"
    /\ LET sites == CrystalOf(call.crystal).sites IN
       \E a, b \in 1..Len(sites) :
           call' = MeshCall(call.crystal, "createBondMesh", <<a, b>>, {a, b},
                            createBondMesh(sites[a], sites[b]))
    /\ UNCHANGED <<bondVars, distVars, latVars, renVars>>

CallCreateInstancedAtoms ==
    /\ call.op = "none"
    /\ call' = MeshCall(call.crystal, "createInstancedAtoms", <<>>,
                        1..Len(CrystalOf(call.crystal).sites),
                        createInstancedAtoms(call.crystal))
    /\ UNCHANGED <<bondVars, distVars, latVars, renVars>>

CallCreateInstancedBonds ==
    /\ call.op = "none"
    /\ \E value \in SliderValues :
          LET bonding == [DefaultBonding EXCEPT !.f = value]
              bs == calculateBonds(CrystalOf(call.crystal), BondingConfig(bonding))
          IN call' = MeshCall(call.crystal, "createInstancedBonds", <<value>>,
                              BondedSites(bs), Ok(createInstancedBonds(bs, call.crystal)))
    /\ UNCHANGED <<bondVars, distVars, latVars, renVars>>

CallCreatePolyhedronMesh ==
    /\ call.op = "none"
    /\ LET sites == CrystalOf(call.crystal).sites IN
       \E k \in 1..Len(sites) :
           call' = MeshCall(call.crystal, "createPolyhedronMesh", <<k>>, 1..Len(sites),
                            createPolyhedronMesh(call.crystal, sites[k], Neighbors(sites, k)))
    /\ UNCHANGED <<bondVars, distVars, latVars, renVars>>

NextMesh ==
    \/ CallCreateBondMesh
    \/ CallCreateInstancedAtoms
    \/ CallCreateInstancedBonds
    \/ CallCreatePolyhedronMesh

SpecMesh == InitMesh /\ [][NextMesh]_vars

\* C18 (as claimed): createBondMesh, createInstancedBonds, createInstancedAtoms
\* and createPolyhedronMesh each fail with an error whenever one of the sites
\* they use has no Cartesian coordinate; none skips the site.
C18_FailsWithoutCartesian ==
    (call.op # "none"
     /\ \E n \in call.used : ~CrystalOf(call.crystal).sites[n].cart)
        => call.out.thrown

(***************************************************************************)
(* getCovalentRadius as a function of its argument: the string is drawn at *)
(* Init, the call is the action.                                           *)
(***************************************************************************)
\* COVALENT_RADII[element] || 1.0
getCovalentRadius(element) == JsOr(RadiusLookup(element), JsNum(100))

\* strings that are no key of the table and no property of Object.prototype:
\* the tests' unknown symbols, other spellings of table symbols, elements
\* beyond Kr
UnknownSymbols ==
    {"Zzz", "Unknown", "", "h", "NA", "cl", "Rb", "Xe", "Au", "U", "D", "X"}

ElementStrings == DOMAIN COVALENT_RADII \cup ObjectPrototypeKeys \cup UnknownSymbols

NotCalled == [returned |-> FALSE]

InitRadius ==
    /\ BondsIdle
    /\ DistIdle
    /\ LatticeIdle
    /\ RenderIdle
    /\ \E element \in ElementStrings :
          call = [fn |-> "getCovalentRadius", element |-> element, out |-> NotCalled]

CallGetCovalentRadius ==
    /\ call.out = NotCalled
    /\ call' = [call EXCEPT !.out = [returned |-> TRUE,
                                      value |-> getCovalentRadius(call.element)]]
    /\ UNCHANGED <<bondVars, distVars, latVars, renVars>>

NextRadius == CallGetCovalentRadius

SpecRadius == InitRadius /\ [][NextRadius]_vars

\* C20 (as claimed): getCovalentRadius returns the table's radius for every
\* symbol of the table and the number 1.0 for every other string.
C20_TableOrDefault ==
    call.out.returned =>
        call.out.value = IF call.element \in DOMAIN COVALENT_RADII
                         THEN JsNum(COVALENT_RADII[call.element])
                         ELSE JsNum(100)

(***************************************************************************)
(* identifyPolyhedronType as a function of its argument: the neighbour     *)
(* list is drawn at Init, the call is the action.                          *)
(***************************************************************************)
MaxNeighbors == 9

\* the switch without its case 8
identifyPolyhedronTypeNoEight(neighbors) ==
    LET coordinationNumber == Len(neighbors) IN
    CASE coordinationNumber = 2 -> "Linear"
      [] coordinationNumber = 3 -> "Trigonal"
      [] coordinationNumber = 4 -> "Tetrahedral"
      [] coordinationNumber = 5 -> "Trigonal bipyramidal"
      [] coordinationNumber = 6 -> "Octahedral"
      [] OTHER -> ToString(coordinationNumber) \o "-coordinate"

\* identifyPolyhedronType(neighbors): the switch on neighbors.length; the
\* default is the template `${coordinationNumber}-coordinate`
identifyPolyhedronType(neighbors) ==
    LET coordinationNumber == Len(neighbors) IN
    CASE coordinationNumber = 2 -> "Linear"
      [] coordinationNumber = 3 -> "Trigonal"
      [] coordinationNumber = 4 -> "Tetrahedral"
      [] coordinationNumber = 5 -> "Trigonal bipyramidal"
      [] coordinationNumber = 6 -> "Octahedral"
      [] coordinationNumber = 8 -> "Square antiprismatic"
      [] OTHER -> ToString(coordinationNumber) \o "-coordinate"

\* n neighbours of one element along the first axis from `first` on, with or
\* without the optional cartesian field
NeighborList(n, element, first, cart) ==
    [k \in 1..n |-> Site(element, <<first + k, 0, 0>>, cart)]

NeighborLists ==
    {NeighborList(n, element, first, cart) :
        n \in 0..MaxNeighbors, element \in {"Na", "Cl", "H"},
        first \in {0, 1}, cart \in BOOLEAN}

InitPolyhedronType ==
    /\ BondsIdle
    /\ DistIdle
    /\ LatticeIdle
    /\ RenderIdle
    /\ \E neighbors \in NeighborLists :
          call = [fn |-> "identifyPolyhedronType", neighbors |-> neighbors,
                  out |-> NotCalled]

CallIdentifyPolyhedronType ==
    /\ call.out = NotCalled
    /\ call' = [call EXCEPT !.out = [returned |-> TRUE,
                                      value |-> identifyPolyhedronType(call.neighbors)]]
    /\ UNCHANGED <<bondVars, distVars, latVars, renVars>>

NextPolyhedronType == CallIdentifyPolyhedronType

SpecPolyhedronType == InitPolyhedronType /\ [][NextPolyhedronType]_vars

\* the labels as the documentation lists them, the literal count written out
CoordinationLabels ==
    <<"1-coordinate", "Linear", "Trigonal", "Tetrahedral", "Trigonal bipyramidal",
      "Octahedral", "7-coordinate", "Square antiprismatic", "9-coordinate",
      "10-coordinate">>

\* C21: identifyPolyhedronType returns, for every neighbour list, the label
\* of its length alone: Linear, Trigonal, Tetrahedral, Trigonal bipyramidal,
\* Octahedral for 2..6, Square antiprismatic for 8, and "{n}-coordinate" with
\* the literal count for every other length, whatever the neighbours'
\* elements and positions.
C21_LabelOfCountOnly ==
    call.out.returned =>
        call.out.value = IF Len(call.neighbors) = 0 THEN "0-coordinate"
                         ELSE CoordinationLabels[Len(call.neighbors)]

C21_Witness ==
    /\ call.fn = "identifyPolyhedronType"
    /\ call.out.returned
    /\ Len(call.neighbors) = 7
    /\ call.neighbors[1].element = "Cl"
    /\ call.out.value = "7-coordinate"

(***************************************************************************)
(* generateSupercellTranslations (utils/lattice.ts): the three nested      *)
(* loops, one action per loop test and body.  call.pc says which loop's    *)
(* test comes next.                                                        *)
(***************************************************************************)
MaxCells == 3

\* a body that pushes [x, z, y]
PushTranslationSwapped(translations, x, y, z) == Append(translations, <<x, z, y>>)

\* translations.push([x, y, z])
PushTranslation(translations, x, y, z) == Append(translations, <<x, y, z>>)

InitSupercell ==
    /\ BondsIdle
    /\ DistIdle
    /\ LatticeIdle
    /\ RenderIdle
    /\ \E nx, ny, nz \in 0..MaxCells :
          call = [fn |-> "generateSupercellTranslations", size |-> <<nx, ny, nz>>,
                  x |-> 0, y |-> 0, z |-> 0, translations |-> <<>>, pc |-> "x"]

\* for (let x = 0; x < size[0]; ...): the test passes
XLoopEnter ==
    /\ call.fn = "generateSupercellTranslations"
    /\ call.pc = "x"
    /\ call.x < call.size[1]
    /\ call' = [call EXCEPT !.y = 0, !.pc = "y"]
    /\ UNCHANGED <<bondVars, distVars, latVars, renVars>>

\* the test fails: return translations
XLoopReturn ==
    /\ call.fn = "generateSupercellTranslations"
    /\ call.pc = "x"
    /\ ~(call.x < call.size[1])
    /\ call' = [call EXCEPT !.pc = "done"]
    /\ UNCHANGED <<bondVars, distVars, latVars, renVars>>

\* for (let y = 0; y < size[1]; ...): the test passes
YLoopEnter ==
    /\ call.fn = "generateSupercellTranslations"
    /\ call.pc = "y"
    /\ call.y < call.size[2]
    /\ call' = [call EXCEPT !.z = 0, !.pc = "z"]
    /\ UNCHANGED <<bondVars, distVars, latVars, renVars>>

\* the test fails: x++
YLoopExit ==
    /\ call.fn = "generateSupercellTranslations"
    /\ call.pc = "y"
    /\ ~(call.y < call.size[2])
    /\ call' = [call EXCEPT !.x = @ + 1, !.pc = "x"]
    /\ UNCHANGED <<bondVars, distVars, latVars, renVars>>

\* for (let z = 0; z < size[2]; z++) translations.push([x, y, z])
ZLoopPush ==
    /\ call.fn = "generateSupercellTranslations"
    /\ call.pc = "z"
    /\ call.z < call.size[3]
    /\ call' = [call EXCEPT
                  !.translations = PushTranslation(@, call.x, call.y, call.z),
                  !.z = @ + 1]
    /\ UNCHANGED <<bondVars, distVars, latVars, renVars>>

\* the test fails: y++
ZLoopExit ==
    /\ call.fn = "generateSupercellTranslations"
    /\ call.pc = "z"
    /\ ~(call.z < call.size[3])
    /\ call' = [call EXCEPT !.y = @ + 1, !.pc = "y"]
    /\ UNCHANGED <<bondVars, distVars, latVars, renVars>>

NextSupercell ==
    \/ XLoopEnter
    \/ XLoopReturn
    \/ YLoopEnter
    \/ YLoopExit
    \/ ZLoopPush
    \/ ZLoopExit

SpecSupercell == InitSupercell /\ [][NextSupercell]_vars

\* C22: generateSupercellTranslations returns nx*ny*nz vectors, the one at
\* position p being (p div (ny*nz), (p div nz) mod ny, p mod nz); every triple
\* of the box [0,nx) x [0,ny) x [0,nz) occurs exactly once; a dimension of 0
\* gives the empty list.
C22_RowMajorBox ==
    call.pc = "done" =>
        LET nx == call.size[1]
            ny == call.size[2]
            nz == call.size[3]
            t == call.translations
        IN /\ Len(t) = nx * ny * nz
           /\ \A p \in 0..(Len(t) - 1) :
                 t[p + 1] = <<p \div (ny * nz), (p \div nz) % ny, p % nz>>
           /\ \A x \in 0..(nx - 1), y \in 0..(ny - 1), z \in 0..(nz - 1) :
                 Cardinality({q \in 1..Len(t) : t[q] = <<x, y, z>>}) = 1
           /\ (nx = 0 \/ ny = 0 \/ nz = 0) => t = <<>>

C22_Witness ==
    /\ call.fn = "generateSupercellTranslations"
    /\ call.pc = "done"
    /\ call.size = <<2, 3, 2>>
    /\ Len(call.translations) = 12
    /\ call.translations[6] = <<0, 2, 1>>

(***************************************************************************)
(* fracToCartesian and periodicDistance under one lattice matrix: the      *)
(* fractional vector and the matrix are drawn at Init; one action converts *)
(* the vector, the other takes its periodic distance from the origin.      *)
(***************************************************************************)
\* the matrix (entries in 0.001 A) as the doubles fracToCartesian is handed
DoubleMatrix(M) == [r \in 1..3 |-> [n \in 1..3 |-> FInt(M[r][n])]]

InitConvention ==
    /\ BondsIdle
    /\ DistIdle
    /\ LatticeIdle
    /\ RenderIdle
    /\ \E frac \in DistPoints2, lattice \in DistLattices :
          call = [fn |-> "convention", frac |-> frac, lattice |-> lattice,
                  cart |-> Pending, dist |-> Pending]

\* fracToCartesian(frac, lattice)
CallFracToCartesianOf ==
    /\ call.fn = "convention"
    /\ ~call.cart.done
    /\ call' = [call EXCEPT
                  !.cart = Result(fracToCartesian(call.frac, DoubleMatrix(call.lattice)))]
    /\ UNCHANGED <<bondVars, distVars, latVars, renVars>>

\* periodicDistance([0, 0, 0], frac, lattice)
CallPeriodicDistanceFromOrigin ==
    /\ call.fn = "convention"
    /\ ~call.dist.done
    /\ call' = [call EXCEPT
                  !.dist = Result(periodicDistance(<<0, 0, 0>>, call.frac, call.lattice))]
    /\ UNCHANGED <<bondVars, distVars, latVars, renVars>>

NextConvention == CallFracToCartesianOf \/ CallPeriodicDistanceFromOrigin

SpecConvention == InitConvention /\ [][NextConvention]_vars

\* C24: component k of fracToCartesian(f, M) is
\* f[0]*M[0][k] + f[1]*M[1][k] + f[2]*M[2][k], the rows of M being the lattice
\* vectors, and periodicDistance forms its Cartesian difference from the
\* wrapped fractional difference by the same product.
C24_RowVectorConvention ==
    LET f == call.frac
        M == call.lattice
        w == [n \in 1..3 |-> ((f[n] + 2) % 4) - 2]
        Row(v, k) == v[1] * M[1][k] + v[2] * M[2][k] + v[3] * M[3][k]
    IN /\ call.cart.done =>
             \A k \in 1..3 :
                 /\ IsFinite(call.cart.v[k])
                 /\ call.cart.v[k].e = 0
                 /\ 4 * call.cart.v[k].n = Row(f, k) * call.cart.v[k].d
       /\ call.dist.done =>
             call.dist.v = Row(w, 1) * Row(w, 1) + Row(w, 2) * Row(w, 2)
                           + Row(w, 3) * Row(w, 3)

\* both calls made under a matrix that is not symmetric, for a vector whose
\* product with the matrix differs from its product with the transpose
C24_Witness ==
    /\ call.fn = "convention"
    /\ call.cart.done
    /\ call.dist.done
    /\ call.lattice[2][1] # call.lattice[1][2]
    /\ call.frac[1] # 0 /\ call.frac[2] # 0
    /\ call.dist.v > 0

====
